---- MODULE Spec2Model ----
(***************************************************************************)
(* FinoSpark backend: the /analyze handler (backend/app/main.py), its      *)
(* in-memory rate limiter, the provider adapter and the JSON recovery      *)
(* engine (backend/app/openrouter_client.py), and the analysis schema      *)
(* (backend/app/schemas.py).                                               *)
(*                                                                         *)
(* Texts are sequences of one-character strings, so that the regular       *)
(* expressions and json.loads of the source are computed character by      *)
(* character.  The modelled alphabet has no backslash: JSON escape         *)
(* sequences do not occur in any text below.                               *)
(***************************************************************************)
EXTENDS Integers, Sequences, FiniteSets, TLC

(***************************************************************************)
(* Characters and Python string primitives                                 *)
(***************************************************************************)
Digits == {"0", "1", "2", "3", "4", "5", "6", "7", "8", "9"}

Letters ==
    {"a", "b", "c", "d", "e", "f", "g", "h", "i", "j", "k", "l", "m",
     "n", "o", "p", "q", "r", "s", "t", "u", "v", "w", "x", "y", "z",
     "A", "B", "C", "D", "E", "F", "G", "H", "I", "J", "K", "L", "M",
     "N", "O", "P", "Q", "R", "S", "T", "U", "V", "W", "X", "Y", "Z"}

\* str.strip() and the regex class \s
IsSpace(c) == c \in {" ", "\n", "\t", "\r", "\f"}

\* the whitespace json.loads skips
IsJsonWs(c) == c \in {" ", "\n", "\t", "\r"}

\* the characters the strip regex's value class [^,{}\[\]] excludes
IsStructural(c) == c \in {",", "{", "}", "[", "]"}

IsCloser(c) == c \in {"}", "]"}

From(s, i) == SubSeq(s, i, Len(s))

RECURSIVE SkipSpace(_, _)
SkipSpace(s, i) ==
    IF i <= Len(s) /\ IsSpace(s[i]) THEN SkipSpace(s, i + 1) ELSE i

RECURSIVE SkipJsonWs(_, _)
SkipJsonWs(s, i) ==
    IF i <= Len(s) /\ IsJsonWs(s[i]) THEN SkipJsonWs(s, i + 1) ELSE i

RECURSIVE SkipLetters(_, _)
SkipLetters(s, i) ==
    IF i <= Len(s) /\ s[i] \in Letters THEN SkipLetters(s, i + 1) ELSE i

RECURSIVE SkipDigits(_, _)
SkipDigits(s, i) ==
    IF i <= Len(s) /\ s[i] \in Digits THEN SkipDigits(s, i + 1) ELSE i

RECURSIVE RSkipSpace(_, _)
RSkipSpace(s, j) ==
    IF j >= 1 /\ IsSpace(s[j]) THEN RSkipSpace(s, j - 1) ELSE j

\* str.strip()
Strip(s) == SubSeq(s, SkipSpace(s, 1), RSkipSpace(s, Len(s)))

\* does lit occur in s at index i
MatchAt(s, i, lit) ==
    /\ i >= 1
    /\ i + Len(lit) - 1 <= Len(s)
    /\ \A k \in 1..Len(lit) : s[i + k - 1] = lit[k]

\* str.startswith
StartsWith(s, lit) == MatchAt(s, 1, lit)

EndsWith(s, lit) == MatchAt(s, Len(s) - Len(lit) + 1, lit)

\* str.count for a one-character needle
Count(s, c) == Cardinality({i \in 1..Len(s) : s[i] = c})

\* str.rfind for a one-character needle (0 when absent; Python gives -1)
RFind(s, c) ==
    LET hits == {i \in 1..Len(s) : s[i] = c}
    IN  IF hits = {} THEN 0 ELSE CHOOSE i \in hits : \A j \in hits : j <= i

\* first index >= i holding c (0 when absent)
FindFrom(s, i, c) ==
    LET hits == {j \in i..Len(s) : s[j] = c}
    IN  IF hits = {} THEN 0 ELSE CHOOSE j \in hits : \A k \in hits : j <= k

\* c * n
Repeat(c, n) == [k \in 1..n |-> c]

(***************************************************************************)
(* json.loads.  A value is a tagged tuple:                                 *)
(*   <<"str", chars>>, <<"int", negative, digits>>,                        *)
(*   <<"float", negative, digits, fraction, exponent>>,                    *)
(*   <<"lit", name>> (None, True, False, NaN, Infinity, -Infinity),        *)
(*   <<"arr", elements>>, <<"obj", dict>> where dict is a function from    *)
(*   key texts to values (a later duplicate key wins, as in Python).       *)
(* A parse result is [ok, v, n]: n is the index after the value.           *)
(***************************************************************************)
None == <<"lit", "None">>

Fail == [ok |-> FALSE, v |-> None, n |-> 0]

Ok(val, next) == [ok |-> TRUE, v |-> val, n |-> next]

\* leading zeros dropped: the digits of an int as Python holds it
RECURSIVE DropZeros(_)
DropZeros(ds) ==
    IF Len(ds) > 1 /\ ds[1] = "0" THEN DropZeros(From(ds, 2)) ELSE ds

\* json.scanner NUMBER_RE: (-?(?:0|[1-9]\d*))(\.\d+)?([eE][-+]?\d+)?
ParseNumber(s, i) ==
    LET neg    == i <= Len(s) /\ s[i] = "-"
        i0     == IF neg THEN i + 1 ELSE i
        hasInt == i0 <= Len(s) /\ s[i0] \in Digits
        i1     == IF s[i0] = "0" THEN i0 + 1 ELSE SkipDigits(s, i0)
        hasFr  == i1 + 1 <= Len(s) /\ s[i1] = "." /\ s[i1 + 1] \in Digits
        i2     == IF hasFr THEN SkipDigits(s, i1 + 1) ELSE i1
        isE    == i2 <= Len(s) /\ s[i2] \in {"e", "E"}
        sgn    == isE /\ i2 + 1 <= Len(s) /\ s[i2 + 1] \in {"+", "-"}
        e0     == IF sgn THEN i2 + 2 ELSE i2 + 1
        hasEx  == isE /\ e0 <= Len(s) /\ s[e0] \in Digits
        i3     == IF hasEx THEN SkipDigits(s, e0) ELSE i2
        int    == SubSeq(s, i0, i1 - 1)
        frac   == IF hasFr THEN SubSeq(s, i1 + 1, i2 - 1) ELSE <<>>
        exp    == IF hasEx THEN SubSeq(s, i2 + 1, i3 - 1) ELSE <<>>
    IN  IF ~hasInt THEN Fail
        ELSE IF hasFr \/ hasEx
             THEN Ok(<<"float", neg, int, frac, exp>>, i3)
             ELSE Ok(<<"int", neg, DropZeros(int)>>, i3)

\* py_scanstring, strict: ends at the next quote; control characters are
\* rejected (the alphabet has no backslash)
ParseString(s, i) ==
    LET close == FindFrom(s, i + 1, "\"")
    IN  IF close = 0 THEN Fail
        ELSE IF \E k \in (i + 1)..(close - 1) :
                   s[k] \in {"\n", "\t", "\r", "\f", "\\"}
             THEN Fail
             ELSE Ok(<<"str", SubSeq(s, i + 1, close - 1)>>, close + 1)

LitNull == <<"n", "u", "l", "l">>
LitTrue == <<"t", "r", "u", "e">>
LitFalse == <<"f", "a", "l", "s", "e">>
LitNaN == <<"N", "a", "N">>
LitInfinity == <<"I", "n", "f", "i", "n", "i", "t", "y">>
LitNegInfinity == <<"-">> \o LitInfinity

\* the dict built from a sequence of <<key, value>> pairs
DictOf(pairs) ==
    [k \in {pairs[p][1] : p \in DOMAIN pairs} |->
        LET at   == {p \in DOMAIN pairs : pairs[p][1] = k}
            last == CHOOSE p \in at : \A q \in at : q <= p
        IN  pairs[last][2]]

\* the element of a one-element set.  A variable bound over {e} holds the
\* value of e, computed once: the recursive operators below bind what they
\* pass on this way, so that no result is computed again by its user.
TheOne(S) == CHOOSE r \in S : TRUE

RECURSIVE ParseValue(_, _)
RECURSIVE ParseMembers(_, _, _)
RECURSIVE ParseElements(_, _, _)

\* json.decoder.JSONObject, after a member's value: } ends the object, a
\* comma must be followed by the next key's opening quote
MembersAfterValue(s, acc, key, val) ==
    LET d   == SkipJsonWs(s, val.n)
        nx  == SkipJsonWs(s, d + 1)
    IN  IF ~val.ok THEN Fail
        ELSE IF d > Len(s) THEN Fail
        ELSE IF s[d] = "}"
             THEN Ok(<<"obj", DictOf(Append(acc, <<key.v[2], val.v>>))>>, d + 1)
        ELSE IF s[d] # "," THEN Fail
        ELSE IF ~(nx <= Len(s) /\ s[nx] = "\"") THEN Fail
        ELSE TheOne({ParseMembers(s, nxt, more) :
                        nxt \in {nx},
                        more \in {Append(acc, <<key.v[2], val.v>>)}})

\* json.decoder.JSONObject, after a member's key: ws : ws value
MembersAfterKey(s, acc, key) ==
    LET c == SkipJsonWs(s, key.n)
    IN  IF ~key.ok THEN Fail
        ELSE IF ~(c <= Len(s) /\ s[c] = ":") THEN Fail
        ELSE TheOne({MembersAfterValue(s, acc, key, val) :
                        val \in {ParseValue(s, SkipJsonWs(s, c + 1))}})

\* json.decoder.JSONObject with a key's opening quote at i; acc holds the
\* <<key, value>> pairs read so far
ParseMembers(s, i, acc) ==
    TheOne({MembersAfterKey(s, acc, key) : key \in {ParseString(s, i)}})

\* json.decoder.JSONArray, after an element: ] ends the array, a comma must
\* be followed by a value
ElementsAfterValue(s, acc, val) ==
    LET d == SkipJsonWs(s, val.n)
    IN  IF ~val.ok THEN Fail
        ELSE IF d > Len(s) THEN Fail
        ELSE IF s[d] = "]" THEN Ok(<<"arr", Append(acc, val.v)>>, d + 1)
        ELSE IF s[d] # "," THEN Fail
        ELSE TheOne({ParseElements(s, nxt, more) :
                        nxt \in {SkipJsonWs(s, d + 1)},
                        more \in {Append(acc, val.v)}})

\* json.decoder.JSONArray with an element starting at i
ParseElements(s, i, acc) ==
    TheOne({ElementsAfterValue(s, acc, val) : val \in {ParseValue(s, i)}})

\* json.scanner.py_make_scanner._scan_once
ParseValue(s, i) ==
    IF i > Len(s) THEN Fail
    ELSE IF s[i] = "\"" THEN ParseString(s, i)
    ELSE IF s[i] = "{" THEN
        LET j == SkipJsonWs(s, i + 1)
        IN  IF j > Len(s) THEN Fail
            ELSE IF s[j] = "}" THEN Ok(<<"obj", DictOf(<<>>)>>, j + 1)
            ELSE IF s[j] # "\"" THEN Fail
            ELSE TheOne({ParseMembers(s, k, <<>>) : k \in {j}})
    ELSE IF s[i] = "[" THEN
        LET j == SkipJsonWs(s, i + 1)
        IN  IF j > Len(s) THEN Fail
            ELSE IF s[j] = "]" THEN Ok(<<"arr", <<>>>>, j + 1)
            ELSE TheOne({ParseElements(s, k, <<>>) : k \in {j}})
    ELSE IF MatchAt(s, i, LitNull) THEN Ok(None, i + 4)
    ELSE IF MatchAt(s, i, LitTrue) THEN Ok(<<"lit", "True">>, i + 4)
    ELSE IF MatchAt(s, i, LitFalse) THEN Ok(<<"lit", "False">>, i + 5)
    ELSE IF ParseNumber(s, i).ok THEN ParseNumber(s, i)
    ELSE IF MatchAt(s, i, LitNaN) THEN Ok(<<"lit", "NaN">>, i + 3)
    ELSE IF MatchAt(s, i, LitInfinity) THEN Ok(<<"lit", "Infinity">>, i + 8)
    ELSE IF MatchAt(s, i, LitNegInfinity) THEN Ok(<<"lit", "-Infinity">>, i + 9)
    ELSE Fail

\* json.loads(text): one value, surrounded by whitespace only
LoadsEnd(s, r) ==
    IF r.ok /\ SkipJsonWs(s, r.n) = Len(s) + 1 THEN r ELSE Fail

Loads(s) ==
    TheOne({LoadsEnd(s, r) :
               r \in {TheOne({ParseValue(s, i) : i \in {SkipJsonWs(s, 1)}})}})

(***************************************************************************)
(* The regular expressions of _extract_json_from_response                  *)
(***************************************************************************)
\* SANY admits no grave accent inside a string: the character has a name
Backtick == "grave"

FenceMark == <<Backtick, Backtick, Backtick>>

JsonTag == <<"j", "s", "o", "n">>

\* SubFenceOpen with the language tag forgotten: re.sub(r'^```\s*', '', s)
SubFenceOpenNoTag(s) ==
    IF StartsWith(s, FenceMark)
    THEN From(s, SkipSpace(s, Len(FenceMark) + 1))
    ELSE s

\* re.sub(r'^```[a-zA-Z]*\s*', '', s): one match at most, at the start
SubFenceOpen(s) ==
    IF StartsWith(s, FenceMark)
    THEN From(s, SkipSpace(s, SkipLetters(s, Len(FenceMark) + 1)))
    ELSE s

\* re.sub(r'```$', '', s): $ is the end of s, or just before a final newline
SubFenceClose(s) ==
    IF EndsWith(s, FenceMark) THEN SubSeq(s, 1, Len(s) - Len(FenceMark))
    ELSE IF EndsWith(s, FenceMark \o <<"\n">>)
         THEN SubSeq(s, 1, Len(s) - Len(FenceMark) - 1) \o <<"\n">>
         ELSE s

\* lines 98-100: the fence markers are removed when the trimmed text opens
\* with one; otherwise the text is left as it is (untrimmed)
StripFence(text) ==
    IF StartsWith(Strip(text), FenceMark)
    THEN SubFenceClose(Strip(SubFenceOpen(Strip(text))))
    ELSE text

\* the match of ```(?:json)?\s*(\{[\s\S]*?\})\s*``` that starts at i:
\* <<first, last>> of group 1, or <<0, 0>>
FencedAt(s, i) ==
    LET j  == i + Len(FenceMark)
        j1 == IF MatchAt(s, j, JsonTag) THEN j + Len(JsonTag) ELSE j
        k  == SkipSpace(s, j1)
        ends == {e \in (k + 1)..Len(s) :
                    s[e] = "}" /\ MatchAt(s, SkipSpace(s, e + 1), FenceMark)}
    IN  IF MatchAt(s, i, FenceMark) /\ k <= Len(s) /\ s[k] = "{" /\ ends # {}
        THEN <<k, CHOOSE e \in ends : \A f \in ends : e <= f>>
        ELSE <<0, 0>>

\* re.search(r'```(?:json)?\s*(\{[\s\S]*?\})\s*```', s): the leftmost match
SearchFenced(s) ==
    LET starts == {i \in 1..Len(s) : FencedAt(s, i)[1] # 0}
    IN  IF starts = {} THEN [found |-> FALSE, g |-> <<>>]
        ELSE LET i == CHOOSE a \in starts : \A b \in starts : a <= b
                 m == FencedAt(s, i)
             IN  [found |-> TRUE, g |-> SubSeq(s, m[1], m[2])]

\* re.search(r'(\{[\s\S]*\})', s): the first { through the last }
SearchLargest(s) ==
    LET a == FindFrom(s, 1, "{")
        b == RFind(s, "}")
    IN  IF a # 0 /\ b > a
        THEN [found |-> TRUE, g |-> SubSeq(s, a, b)]
        ELSE [found |-> FALSE, g |-> <<>>]

\* lines 122-124: json_str[:last_brace+1]
CutAtLastBrace(s) ==
    IF RFind(s, "}") # 0 THEN SubSeq(s, 1, RFind(s, "}")) ELSE s

\* the match of ,\s*([}\]]) that starts at i: the index of group 1, or 0
CommaAt(s, i) ==
    LET j == SkipSpace(s, i + 1)
    IN  IF s[i] = "," /\ j <= Len(s) /\ IsCloser(s[j]) THEN j ELSE 0

\* the leftmost index >= i at which ,\s*([}\]]) matches, or 0
FirstCommaFrom(s, i) ==
    LET hits == {k \in i..Len(s) : CommaAt(s, k) # 0}
    IN  IF hits = {} THEN 0 ELSE CHOOSE k \in hits : \A m \in hits : k <= m

\* re.sub(r',\s*([}\]])', r'\1', s) from index i on: every match, left to
\* right and not overlapping, is replaced by its group 1
RECURSIVE SubTrailingCommasFrom(_, _)
SubTrailingCommasFrom(s, i) ==
    TheOne({IF k = 0 THEN From(s, i)
            ELSE SubSeq(s, i, k - 1) \o <<s[CommaAt(s, k)]>>
                     \o TheOne({SubTrailingCommasFrom(s, n) :
                                   n \in {CommaAt(s, k) + 1}})
            : k \in {FirstCommaFrom(s, i)}})

\* line 126
SubTrailingCommas(s) == SubTrailingCommasFrom(s, 1)

\* the match of ,\s*"[^"]*"\s*:\s*[^,{}\[\]]*([}\]]) that starts at i: the
\* index of group 1, or 0.  After the colon the value class runs to the first
\* of , { } [ ], which must be a closer.
PairAt(s, i) ==
    LET j == SkipSpace(s, i + 1)
        q == FindFrom(s, j + 1, "\"")
        c == SkipSpace(s, q + 1)
        stops == {d \in (c + 1)..Len(s) : IsStructural(s[d])}
        d == CHOOSE x \in stops : \A y \in stops : x <= y
    IN  IF /\ s[i] = ","
           /\ j <= Len(s) /\ s[j] = "\""
           /\ q # 0
           /\ c <= Len(s) /\ s[c] = ":"
           /\ stops # {}
           /\ IsCloser(s[d])
        THEN d ELSE 0

\* the leftmost index >= i at which the key-value pattern matches, or 0
FirstPairFrom(s, i) ==
    LET hits == {k \in i..Len(s) : PairAt(s, k) # 0}
    IN  IF hits = {} THEN 0 ELSE CHOOSE k \in hits : \A m \in hits : k <= m

\* re.sub(r',\s*"[^"]*"\s*:\s*[^,{}\[\]]*([}\]])', r'\1', s) from index i on:
\* every match, left to right and not overlapping, is replaced by its group 1
RECURSIVE SubPairsFrom(_, _)
SubPairsFrom(s, i) ==
    TheOne({IF k = 0 THEN From(s, i)
            ELSE SubSeq(s, i, k - 1) \o <<s[PairAt(s, k)]>>
                     \o TheOne({SubPairsFrom(s, n) : n \in {PairAt(s, k) + 1}})
            : k \in {FirstPairFrom(s, i)}})

\* line 133
StripLastPair(s) == SubPairsFrom(s, 1)

\* lines 144-147: the missing closing braces appended
CompleteBraces(s) ==
    IF Count(s, "{") > Count(s, "}")
    THEN s \o Repeat("}", Count(s, "{") - Count(s, "}"))
    ELSE s

(***************************************************************************)
(* The analysis schema (schemas.py) and reply texts                        *)
(***************************************************************************)
K_emotion == <<"e", "m", "o", "t", "i", "o", "n">>
K_financial_profile ==
    <<"f", "i", "n", "a", "n", "c", "i", "a", "l", "_", "p", "r", "o", "f",
      "i", "l", "e">>
K_confidence == <<"c", "o", "n", "f", "i", "d", "e", "n", "c", "e">>
K_top_insights ==
    <<"t", "o", "p", "_", "i", "n", "s", "i", "g", "h", "t", "s">>
K_recommendations ==
    <<"r", "e", "c", "o", "m", "m", "e", "n", "d", "a", "t", "i", "o", "n",
      "s">>
K_savings_plan ==
    <<"s", "a", "v", "i", "n", "g", "s", "_", "p", "l", "a", "n">>
K_title == <<"t", "i", "t", "l", "e">>
K_desc == <<"d", "e", "s", "c">>
K_priority == <<"p", "r", "i", "o", "r", "i", "t", "y">>
K_target_amount ==
    <<"t", "a", "r", "g", "e", "t", "_", "a", "m", "o", "u", "n", "t">>
K_period_days == <<"p", "e", "r", "i", "o", "d", "_", "d", "a", "y", "s">>
K_steps == <<"s", "t", "e", "p", "s">>

Quoted(cs) == <<"\"">> \o cs \o <<"\"">>

Member(k, v) == Quoted(k) \o <<":">> \o v

\* the reply the system prompt asks for (lines 49-64), with the values of the
\* specification's truncation example
AnalysisText(emotion, profile, confidence) ==
    <<"{">> \o Member(K_emotion, Quoted(emotion))
      \o <<",">> \o Member(K_financial_profile, Quoted(profile))
      \o <<",">> \o Member(K_confidence, confidence)
      \o <<",">> \o Member(K_top_insights, <<"[">> \o Quoted(<<"a">>) \o <<"]">>)
      \o <<",">> \o Member(K_recommendations,
             <<"[", "{">> \o Member(K_title, Quoted(<<"t">>))
               \o <<",">> \o Member(K_desc, Quoted(<<"d">>))
               \o <<",">> \o Member(K_priority, <<"1">>) \o <<"}", "]">>)
      \o <<",">> \o Member(K_savings_plan,
             <<"{">> \o Member(K_target_amount, <<"1", "0", "0">>)
               \o <<",">> \o Member(K_period_days, <<"3", "0">>)
               \o <<",">> \o Member(K_steps,
                      <<"[">> \o Quoted(<<"s", "1">>) \o <<",">>
                        \o Quoted(<<"s", "2">>) \o <<"]">>) \o <<"}">>)
      \o <<"}">>

Calm == <<"c", "a", "l", "m">>
Happy == <<"h", "a", "p", "p", "y">>
Saver == <<"s", "a", "v", "e", "r">>
Gambler == <<"g", "a", "m", "b", "l", "e", "r">>
Conf09 == <<"0", ".", "9">>
Conf15 == <<"1", ".", "5">>

ValidAnalysis == AnalysisText(Calm, Saver, Conf09)

\* a closed nested object before a dangling last pair
NestedDangling ==
    <<"{", "\"", "a", "\"", ":", "{", "\"", "b", "\"", ":", "1", ",", "\"",
      "c", "\"", ":", "2", "}", ",", "\"", "e", "\"", ":", "}">>

\* a last pair cut inside its value
BadLiteral ==
    <<"{", "\"", "a", "\"", ":", "1", ",", "\"", "b", "\"", ":", "t", "r",
      "u", "}">>

TrailingCommas ==
    <<"{", "\"", "a", "\"", ":", "[", "1", ",", "2", ",", "]", ",", "}">>

EmptyObject == <<"{", "}">>

FenceInString ==
    <<"{", "\"", "k", "\"", ":", "\"", Backtick, Backtick, Backtick, "\"",
      "}">>

\* the specification's garbage reply
Prose ==
    <<"S", "u", "r", "e", "!", " ", "H", "e", "r", "e", "'", "s", " ", "y",
      "o", "u", "r", " ", "a", "n", "a", "l", "y", "s", "i", "s", ":", " ",
      "I", " ", "t", "h", "i", "n", "k", " ", "y", "o", "u", "'", "r", "e",
      " ", "d", "o", "i", "n", "g", " ", "g", "r", "e", "a", "t", ".">>

NoColon == <<"{", "x", "}">>

OpenBraces == <<"{", "{", "}">>

OneArray == <<"[", "1", "]">>

OnlyEmotion ==
    <<"{", "\"", "e", "m", "o", "t", "i", "o", "n", "\"", ":", "\"", "c",
      "a", "l", "m", "\"", "}">>

\* a valid object laid out with blanks and a line break
Spaced ==
    <<"{", " ", "\"", "a", "\"", " ", ":", " ", "[", "1", ",", " ", "2", "]",
      ",", "\n", " ", "\"", "b", "\"", " ", ":", " ", "{", "\"", "c", "\"",
      ":", " ", "n", "u", "l", "l", "}", " ", "}">>

\* the specification's truncation example: the reply cut before its last ]}}
TruncatedExample == SubSeq(ValidAnalysis, 1, Len(ValidAnalysis) - 3)

\* the documents the extraction inputs are cut from
Docs ==
    {ValidAnalysis, NestedDangling, BadLiteral, TrailingCommas, EmptyObject,
     FenceInString, Spaced, Prose, NoColon, OpenBraces, OneArray}

\* a reply cut off after its first Len(d) - c characters
Truncate(d, c) == SubSeq(d, 1, Len(d) - c)

FenceJsonOpen == <<Backtick, Backtick, Backtick, "j", "s", "o", "n", "\n">>
FenceClose == <<"\n", Backtick, Backtick, Backtick>>
FenceUpperOpen ==
    <<" ", "\n", Backtick, Backtick, Backtick, "J", "S", "O", "N", " ", "\n">>
FenceUpperClose == <<" ", Backtick, Backtick, Backtick, "\n", " ">>
ProseBefore == <<"H", "e", "r", "e", ":", " ">>
ProseFenceOpen ==
    <<"o", "k", "\n", Backtick, Backtick, Backtick, "j", "s", "o", "n", "\n">>
ProseFenceClose == <<"\n", Backtick, Backtick, Backtick, "\n", "b", "y", "e">>
ProseAfter == <<" ", "d", "o", "n", "e">>

\* the ways a model dresses its reply: bare, fenced (tagged json, untagged,
\* tagged JSON with blanks around), after prose, fenced inside prose,
\* before prose
Wraps == 0..6

FenceWraps == {1, 2, 3}

Wrap(w, t) ==
    CASE w = 0 -> t
      [] w = 1 -> FenceJsonOpen \o t \o FenceClose
      [] w = 2 -> FenceMark \o t \o FenceMark
      [] w = 3 -> FenceUpperOpen \o t \o FenceUpperClose
      [] w = 4 -> ProseBefore \o t
      [] w = 5 -> ProseFenceOpen \o t \o ProseFenceClose
      [] w = 6 -> t \o ProseAfter

ExtractTexts ==
    {Wrap(w, Truncate(d, c)) : <<d, c, w>> \in
        {x \in Docs \X (0..Len(ValidAnalysis)) \X Wraps : x[2] <= Len(x[1])}}

(***************************************************************************)
(* State                                                                   *)
(***************************************************************************)
VARIABLES
    openrouter_client,  \* main.py's client: "none", "google" or "openrouter"
    now,                \* time.time(), in whole seconds
    rate_limit_store,   \* user_id -> list of recorded request times
    admitted,           \* history: user_id -> times of all its admitted calls
    allowed,            \* what the last check_rate_limit call returned
    request,            \* the request being handled
    posts,              \* outbound POSTs issued for it
    upstream,           \* what the provider answered
    response,           \* the HTTP response of the handler
    pc,                 \* where the request being handled stands
    content,            \* the reply text handed to _extract_json_from_response
    text,               \* its local text (content, fence markers removed)
    json_str,           \* its local json_str, Unbound until assigned
    json_data,          \* what it returned
    via                 \* the strategy that returned

engineVars == <<content, text, json_str, json_data, via>>

rateVars == <<now, rate_limit_store, admitted, allowed>>

vars ==
    <<openrouter_client, now, rate_limit_store, admitted, allowed, request,
      posts, upstream, response, pc, content, text, json_str, json_data, via>>

\* 'json_str' not in locals()
Unbound == <<"unbound">>

(***************************************************************************)
(* _extract_json_from_response: its locals as a record, one step per       *)
(* strategy                                                                *)
(***************************************************************************)
Engine ==
    [pc |-> pc, text |-> text, json_str |-> json_str, json_data |-> json_data,
     via |-> via]

\* the call _extract_json_from_response(t) at its first statement
EngineStart(t) ==
    [pc |-> "direct", text |-> t, json_str |-> Unbound, json_data |-> None,
     via |-> "none"]

Return(e, v, strategy) ==
    [e EXCEPT !.pc = "extracted", !.json_data = v, !.via = strategy]

\* control passes to the next strategy, nothing returned yet
Goto(e, label) == [e EXCEPT !.pc = label]

\* lines 97-106: fence markers removed, then json.loads of the text
DirectParseStep(e) ==
    TheOne({TheOne({IF r.ok
                    THEN Return([e EXCEPT !.text = t], r.v, "direct")
                    ELSE Goto([e EXCEPT !.text = t], "fenced")
                    : r \in {Loads(t)}})
            : t \in {StripFence(e.text)}})

\* lines 108-114: the first fenced {...} block of the text
FencedBlockStep(e) ==
    TheOne({TheOne({IF m.found /\ r.ok
                    THEN Return(e, r.v, "fenced")
                    ELSE Goto(e, "largest")
                    : r \in {Loads(m.g)}})
            : m \in {SearchFenced(e.text)}})

\* lines 125-129: trailing commas removed from the candidate, then a parse
RepairCommas(e, cand) ==
    TheOne({TheOne({IF r.ok
                    THEN Return([e EXCEPT !.json_str = c], r.v, "largest")
                    ELSE Goto([e EXCEPT !.json_str = c], "strip")
                    : r \in {Loads(c)}})
            : c \in {SubTrailingCommas(CutAtLastBrace(cand))}})

\* lines 116-129: the first { through the last }
LargestObjectStep(e) ==
    TheOne({IF m.found THEN RepairCommas(e, m.g) ELSE Goto(e, "brace")
            : m \in {SearchLargest(e.text)}})

\* an iteration that leaves the loop after any failed parse, colons or not
StripLoopStepGivingUp(e) ==
    TheOne({TheOne({IF r.ok
                    THEN Return([e EXCEPT !.json_str = c], r.v, "strip")
                    ELSE Goto([e EXCEPT !.json_str = c], "brace")
                    : r \in {Loads(c)}})
            : c \in {StripLastPair(e.json_str)}})

\* lines 131-139: one iteration of the while True loop
StripLoopStep(e) ==
    TheOne({TheOne({IF r.ok
                    THEN Return([e EXCEPT !.json_str = c], r.v, "strip")
                    ELSE IF Count(c, ":") = 0
                         THEN Goto([e EXCEPT !.json_str = c], "brace")
                         ELSE Goto([e EXCEPT !.json_str = c], "strip")
                    : r \in {Loads(c)}})
            : c \in {StripLastPair(e.json_str)}})

\* lines 145-151: the missing closing braces appended, then a parse
CompleteAndParse(e) ==
    TheOne({TheOne({IF r.ok
                    THEN Return([e EXCEPT !.json_str = c], r.v, "brace")
                    ELSE Return([e EXCEPT !.json_str = c], None, "none")
                    : r \in {Loads(c)}})
            : c \in {CompleteBraces(e.json_str)}})

\* lines 142-153: brace completion, else None
BraceCompletionStep(e) ==
    IF e.json_str # Unbound /\ Count(e.json_str, "{") > Count(e.json_str, "}")
    THEN CompleteAndParse(e)
    ELSE Return(e, None, "none")

EngineStep(e) ==
    CASE e.pc = "direct" -> DirectParseStep(e)
      [] e.pc = "fenced" -> FencedBlockStep(e)
      [] e.pc = "largest" -> LargestObjectStep(e)
      [] e.pc = "strip" -> StripLoopStep(e)
      [] e.pc = "brace" -> BraceCompletionStep(e)

\* the locals of the engine become those of e
EngineBecomes(e) ==
    \E x \in {e} :
        /\ pc' = x.pc
        /\ text' = x.text
        /\ json_str' = x.json_str
        /\ json_data' = x.json_data
        /\ via' = x.via

handlerVars ==
    <<openrouter_client, now, rate_limit_store, admitted, allowed, request,
      posts, upstream, response, content>>

DirectParse ==
    /\ pc = "direct"
    /\ EngineBecomes(DirectParseStep(Engine))
    /\ UNCHANGED handlerVars

FencedBlock ==
    /\ pc = "fenced"
    /\ EngineBecomes(FencedBlockStep(Engine))
    /\ UNCHANGED handlerVars

LargestObject ==
    /\ pc = "largest"
    /\ EngineBecomes(LargestObjectStep(Engine))
    /\ UNCHANGED handlerVars

StripLoop ==
    /\ pc = "strip"
    /\ EngineBecomes(StripLoopStep(Engine))
    /\ UNCHANGED handlerVars

BraceCompletion ==
    /\ pc = "brace"
    /\ EngineBecomes(BraceCompletionStep(Engine))
    /\ UNCHANGED handlerVars

Extract ==
    \/ DirectParse
    \/ FencedBlock
    \/ LargestObject
    \/ StripLoop
    \/ BraceCompletion

\* the call run to its return.  The steps are deterministic, so a step that
\* leaves the locals as they were repeats forever: the call never returns,
\* and the locals come back with pc still at the loop.
RECURSIVE RunFrom(_)
RunFrom(e) ==
    IF e.pc = "extracted"
    THEN e
    ELSE TheOne({IF n = e THEN e ELSE RunFrom(n) : n \in {EngineStep(e)}})

RunEngine(t) == TheOne({RunFrom(e) : e \in {EngineStart(t)}})

(***************************************************************************)
(* schemas.py: what AnalysisResponse built from json_data accepts.  The    *)
(* fields carry types only: none has an enumeration or a range.  A value   *)
(* is matched to a field by its JSON kind; the coercions pydantic applies  *)
(* to a value of another kind (a numeric string for a float field) do not  *)
(* occur in the replies below.                                             *)
(***************************************************************************)
IsObj(v) == v[1] = "obj"

IsStr(v) == v[1] = "str"

IsInt(v) == v[1] = "int"

IsFloat(v) == v[1] \in {"int", "float"}

IsStrList(v) == v[1] = "arr" /\ \A i \in DOMAIN v[2] : IsStr(v[2][i])

Has(v, k) == k \in DOMAIN v[2]

\* class Recommendation
IsRecommendation(v) ==
    /\ IsObj(v)
    /\ Has(v, K_title) /\ IsStr(v[2][K_title])
    /\ Has(v, K_desc) /\ IsStr(v[2][K_desc])
    /\ Has(v, K_priority) /\ IsInt(v[2][K_priority])

\* class SavingsPlan; period_days has a default
IsSavingsPlan(v) ==
    /\ IsObj(v)
    /\ Has(v, K_target_amount) /\ IsFloat(v[2][K_target_amount])
    /\ (Has(v, K_period_days) => IsInt(v[2][K_period_days]))
    /\ Has(v, K_steps) /\ IsStrList(v[2][K_steps])

\* class AnalysisResponse; unpacking json_data needs a mapping
Validates(v) ==
    /\ IsObj(v)
    /\ Has(v, K_emotion) /\ IsStr(v[2][K_emotion])
    /\ Has(v, K_financial_profile) /\ IsStr(v[2][K_financial_profile])
    /\ Has(v, K_confidence) /\ IsFloat(v[2][K_confidence])
    /\ Has(v, K_top_insights) /\ IsStrList(v[2][K_top_insights])
    /\ Has(v, K_recommendations)
    /\ v[2][K_recommendations][1] = "arr"
    /\ \A i \in DOMAIN v[2][K_recommendations][2] :
          IsRecommendation(v[2][K_recommendations][2][i])
    /\ Has(v, K_savings_plan) /\ IsSavingsPlan(v[2][K_savings_plan])

\* a float field holds a float: 1 becomes 1.0
ToFloat(v) == IF IsInt(v) THEN <<"float", v[2], v[3], <<"0">>, <<>>>> ELSE v

DefaultPeriodDays == <<"int", FALSE, <<"3", "0">>>>

RecommendationDict(v) ==
    [title |-> v[2][K_title], desc |-> v[2][K_desc],
     priority |-> v[2][K_priority]]

SavingsPlanDict(v) ==
    [target_amount |-> ToFloat(v[2][K_target_amount]),
     period_days |-> IF Has(v, K_period_days) THEN v[2][K_period_days]
                     ELSE DefaultPeriodDays,
     steps |-> v[2][K_steps]]

\* validated.dict(): the declared fields, nothing else
ModelDict(v) ==
    [emotion |-> v[2][K_emotion],
     financial_profile |-> v[2][K_financial_profile],
     confidence |-> ToFloat(v[2][K_confidence]),
     top_insights |-> v[2][K_top_insights],
     recommendations |->
         [i \in DOMAIN v[2][K_recommendations][2] |->
             RecommendationDict(v[2][K_recommendations][2][i])],
     savings_plan |-> SavingsPlanDict(v[2][K_savings_plan])]

\* class ErrorResponse, as .dict()
ErrorResponse(error, details, raw_response) ==
    [error |-> error, details |-> details, raw_response |-> raw_response]

\* str(e) of a caught exception
StrOfException == <<"str(e)">>

\* if json_data: None, false, 0, 0.0, "", [] and {} are falsy
Truthy(v) ==
    CASE v[1] = "lit" -> v[2] \in {"True", "NaN", "Infinity", "-Infinity"}
      [] v[1] = "int" -> v[3] # <<"0">>
      [] v[1] = "float" ->
            \E i \in DOMAIN (v[3] \o v[4]) : (v[3] \o v[4])[i] # "0"
      [] v[1] = "str" -> v[2] # <<>>
      [] v[1] = "arr" -> v[2] # <<>>
      [] v[1] = "obj" -> DOMAIN v[2] # {}

\* lines 199-215 and 272-288: the result for what the engine returned
Respond(v, reply) ==
    IF Truthy(v)
    THEN IF Validates(v)
         THEN ModelDict(v)
         ELSE ErrorResponse(<<"Validation failed">>, StrOfException, reply)
    ELSE ErrorResponse(<<"Failed to extract JSON from model response">>,
                       <<"The model did not return valid JSON">>, reply)

(***************************************************************************)
(* The provider's answer.  A 2xx body is a JSON object, here a record;     *)
(* the reply text sits at candidates[0].content.parts[0].text (Google) or  *)
(* choices[0].message.content (OpenRouter).                                *)
(***************************************************************************)
NoEnvelope == <<>>

Answer(kind, code, envelope) ==
    [kind |-> kind, code |-> code, envelope |-> envelope]

NoAnswer == Answer("none", 0, NoEnvelope)

GoogleEnvelope(t) ==
    [candidates |-> <<[content |-> [parts |-> <<[text |-> t]>>,
                                    role |-> "model"],
                       finishReason |-> "STOP"]>>]

\* 2xx bodies without a reply text: a blocked prompt, no candidate, a
\* candidate without content, content without parts, no part, a part
\* that is not text
GoogleMalformed ==
    <<[promptFeedback |-> "SAFETY"],
      [candidates |-> <<>>],
      [candidates |-> <<[finishReason |-> "SAFETY"]>>],
      [candidates |-> <<[content |-> [role |-> "model"],
                         finishReason |-> "MAX_TOKENS"]>>],
      [candidates |-> <<[content |-> [parts |-> <<>>]]>>],
      [candidates |-> <<[content |-> [parts |-> <<[functionCall |-> "f"]>>]]>>]>>

OpenRouterEnvelope(t) ==
    [choices |-> <<[message |-> [role |-> "assistant", content |-> t]]>>]

\* an error body, no choice, a choice without message, a message without
\* content, a null content
OpenRouterMalformed ==
    <<[error |-> "provider"],
      [choices |-> <<>>],
      [choices |-> <<[finish_reason |-> "error"]>>],
      [choices |-> <<[message |-> [role |-> "assistant"]]>>],
      OpenRouterEnvelope(None)>>

\* what reading the envelope gives: the else branch, an exception, a value
NoList == [kind |-> "structure", text |-> None]

Raised == [kind |-> "raised", text |-> None]

Got(t) == [kind |-> "text", text |-> t]

\* lines 193-194
GoogleContent(response_data) ==
    IF ~("candidates" \in DOMAIN response_data
            /\ Len(response_data.candidates) > 0)
    THEN NoList
    ELSE IF "content" \notin DOMAIN response_data.candidates[1]
    THEN Raised
    ELSE IF "parts" \notin DOMAIN response_data.candidates[1].content
    THEN Raised
    ELSE IF Len(response_data.candidates[1].content.parts) = 0
    THEN Raised
    ELSE IF "text" \notin DOMAIN response_data.candidates[1].content.parts[1]
    THEN Raised
    ELSE Got(response_data.candidates[1].content.parts[1].text)

\* lines 266-267
OpenRouterContent(response_data) ==
    IF ~("choices" \in DOMAIN response_data
            /\ Len(response_data.choices) > 0)
    THEN NoList
    ELSE IF "message" \notin DOMAIN response_data.choices[1]
    THEN Raised
    ELSE IF "content" \notin DOMAIN response_data.choices[1].message
    THEN Raised
    ELSE Got(response_data.choices[1].message.content)

Content(provider, response_data) ==
    IF provider = "google"
    THEN GoogleContent(response_data)
    ELSE OpenRouterContent(response_data)

\* except Exception, lines 229-233 and 302-306
UnexpectedError ==
    ErrorResponse(<<"Unexpected error during API call">>, StrOfException,
                  None)

\* except httpx.HTTPStatusError, lines 223-228 and 296-301
StatusError(code) ==
    ErrorResponse(<<"API request failed with status", code>>, StrOfException,
                  <<"e.response.text">>)

\* the else branch, lines 216-221 and 289-294
StructureError(provider, response_data) ==
    ErrorResponse(<<"Unexpected API response structure">>,
                  IF provider = "google"
                  THEN <<"No candidates in response">>
                  ELSE <<"No choices in response">>,
                  <<"str(response_data)", response_data>>)

(***************************************************************************)
(* main.py: the rate limiter                                               *)
(***************************************************************************)
Users == {"u1", "u2"}

RATE_LIMIT_WINDOW == 60

RATE_LIMIT_MAX_REQUESTS == 10

\* the clock advances by TickStep seconds up to MaxTime
TickStep == 30

MaxTime == 60

\* admitted calls kept in the history, all users together
MaxHistory == 13

RECURSIVE TotalLen(_, _)
TotalLen(f, S) ==
    IF S = {}
    THEN 0
    ELSE TheOne({Len(f[u]) + TotalLen(f, S \ {u})
                 : u \in {CHOOSE x \in S : TRUE}})

HistoryOpen == TotalLen(admitted, Users) < MaxHistory

\* line 58: the recorded times still inside the window
Pruned(user_requests, t) ==
    SelectSeq(user_requests, LAMBDA req_time : t - req_time < RATE_LIMIT_WINDOW)

\* check_rate_limit with the limit test of line 60 off by one
CheckRateLimitOffByOne(user_id) ==
    \E user_requests \in {Pruned(rate_limit_store[user_id], now)} :
        IF Len(user_requests) > RATE_LIMIT_MAX_REQUESTS
        THEN /\ allowed' = FALSE
             /\ rate_limit_store' =
                    [rate_limit_store EXCEPT ![user_id] = user_requests]
             /\ UNCHANGED <<now, admitted>>
        ELSE /\ allowed' = TRUE
             /\ rate_limit_store' =
                    [rate_limit_store EXCEPT
                        ![user_id] = Append(user_requests, now)]
             /\ admitted' = [admitted EXCEPT ![user_id] = Append(@, now)]
             /\ UNCHANGED now

\* check_rate_limit(user_id), lines 54-64
CheckRateLimit(user_id) ==
    \E user_requests \in {Pruned(rate_limit_store[user_id], now)} :
        IF Len(user_requests) >= RATE_LIMIT_MAX_REQUESTS
        THEN /\ allowed' = FALSE
             /\ rate_limit_store' =
                    [rate_limit_store EXCEPT ![user_id] = user_requests]
             /\ UNCHANGED <<now, admitted>>
        ELSE /\ allowed' = TRUE
             /\ rate_limit_store' =
                    [rate_limit_store EXCEPT
                        ![user_id] = Append(user_requests, now)]
             /\ admitted' = [admitted EXCEPT ![user_id] = Append(@, now)]
             /\ UNCHANGED now

\* time passes
Tick ==
    /\ now + TickStep <= MaxTime
    /\ now' = now + TickStep
    /\ UNCHANGED <<openrouter_client, rate_limit_store, admitted, allowed,
                   request, posts, upstream, response, pc, content, text,
                   json_str, json_data, via>>

(***************************************************************************)
(* main.py: POST /analyze.  A request is followed from its arrival to its  *)
(* response before the next one arrives: the handler yields only at the    *)
(* awaited POST, and what it shares with other requests, the store, is     *)
(* read and written before that, in check_rate_limit.                      *)
(***************************************************************************)
NoRequest == [user_id |-> "nobody", transactions |-> 0]

NoResponse == [status |-> 0, body |-> <<>>]

\* raise HTTPException(status_code, detail)
Raise(status_code) ==
    /\ response' = [status |-> status_code, body |-> [detail |-> status_code]]
    /\ pc' = "done"
    /\ UNCHANGED <<posts, upstream, content, text, json_str, json_data, via>>

\* client.post(...), awaited: lines 183-187 and 255-260
Post ==
    /\ posts' = posts + 1
    /\ pc' = "awaiting"
    /\ UNCHANGED <<response, upstream, content, text, json_str, json_data,
                   via>>

\* the handler with the transactions validated before the rate limit
ArriveValidatingFirst(user_id, n) ==
    /\ pc = "idle"
    /\ HistoryOpen
    /\ request' = [user_id |-> user_id, transactions |-> n]
    /\ UNCHANGED openrouter_client
    /\ IF openrouter_client = "none"
       THEN Raise(500) /\ UNCHANGED rateVars
       ELSE IF n = 0
            THEN Raise(400) /\ UNCHANGED rateVars
            ELSE /\ CheckRateLimit(user_id)
                 /\ IF ~allowed' THEN Raise(429) ELSE Post

\* a request of user_id with n transactions arrives: lines 101-123, up to
\* the await of the upstream call
Arrive(user_id, n) ==
    /\ pc = "idle"
    /\ HistoryOpen
    /\ request' = [user_id |-> user_id, transactions |-> n]
    /\ UNCHANGED openrouter_client
    /\ IF openrouter_client = "none"
       THEN Raise(500) /\ UNCHANGED rateVars
       ELSE /\ CheckRateLimit(user_id)
            /\ IF ~allowed'
               THEN Raise(429)
               ELSE IF n = 0 THEN Raise(400) ELSE Post

\* a handler that calls the provider once more after a failed call
ReturnResultRetrying(result) ==
    IF "error" \in DOMAIN result /\ posts < 2
    THEN /\ posts' = posts + 1
         /\ pc' = "awaiting"
         /\ UNCHANGED response
    ELSE /\ response' = [status |-> 200, body |-> result]
         /\ pc' = "done"
         /\ UNCHANGED posts

\* lines 125-134: the result of the client becomes the response
ReturnResult(result) ==
    /\ response' = [status |-> 200, body |-> result]
    /\ pc' = "done"
    /\ UNCHANGED posts

SetLocals(e) ==
    /\ text' = e.text
    /\ json_str' = e.json_str
    /\ json_data' = e.json_data
    /\ via' = e.via

\* the reply text t was read from the envelope: lines 197-215, 270-288
Recover(t) ==
    /\ content' = t
    /\ IF t = None
       THEN ReturnResult(UnexpectedError)
                /\ UNCHANGED <<text, json_str, json_data, via>>
       ELSE \E e \in {RunEngine(t)} :
               /\ SetLocals(e)
               /\ IF e.pc = "extracted"
                  THEN ReturnResult(Respond(e.json_data, t))
                  ELSE pc' = e.pc /\ UNCHANGED <<response, posts>>

\* lines 188-233 and 261-306: everything after the awaited POST, which runs
\* without yielding
Continue(answer) ==
    CASE answer.kind = "transport" ->
            ReturnResult(UnexpectedError) /\ UNCHANGED engineVars
      [] answer.kind = "status" ->
            ReturnResult(StatusError(answer.code)) /\ UNCHANGED engineVars
      [] answer.kind = "not_json" ->
            ReturnResult(UnexpectedError) /\ UNCHANGED engineVars
      [] answer.kind = "ok" ->
            \E c \in {Content(openrouter_client, answer.envelope)} :
                CASE c.kind = "structure" ->
                        ReturnResult(StructureError(openrouter_client,
                                                    answer.envelope))
                            /\ UNCHANGED engineVars
                  [] c.kind = "raised" ->
                        ReturnResult(UnexpectedError) /\ UNCHANGED engineVars
                  [] c.kind = "text" -> Recover(c.text)

\* the reply texts of the model
ReplyTexts ==
    <<ValidAnalysis, Wrap(1, ValidAnalysis),
      AnalysisText(Calm, Saver, Conf15), AnalysisText(Happy, Saver, Conf09),
      AnalysisText(Calm, Gambler, Conf09),
      EmptyObject, OneArray, OnlyEmotion, Prose, NestedDangling,
      TruncatedExample, <<>>>>

Envelope(provider, t) ==
    IF provider = "google" THEN GoogleEnvelope(t) ELSE OpenRouterEnvelope(t)

Malformed(provider) ==
    IF provider = "google" THEN GoogleMalformed ELSE OpenRouterMalformed

\* what the provider can answer: nothing (timeout, connection error), a
\* non-2xx status, a 2xx body that is not JSON, a JSON body without or with
\* a reply text
Answers(provider) ==
    <<Answer("transport", 0, NoEnvelope), Answer("status", 503, NoEnvelope),
      Answer("not_json", 200, NoEnvelope)>>
    \o [i \in DOMAIN Malformed(provider) |->
            Answer("ok", 200, Malformed(provider)[i])]
    \o [i \in DOMAIN ReplyTexts |->
            Answer("ok", 200, Envelope(provider, ReplyTexts[i]))]

UpstreamRespond ==
    /\ pc = "awaiting"
    /\ \E i \in DOMAIN Answers(openrouter_client) :
          \E answer \in {Answers(openrouter_client)[i]} :
              upstream' = answer /\ Continue(answer)
    /\ UNCHANGED <<openrouter_client, now, rate_limit_store, admitted,
                   allowed, request>>

\* the response is sent; the handler is free for the next request
Finish ==
    /\ pc = "done"
    /\ pc' = "idle"
    /\ allowed' = TRUE
    /\ request' = NoRequest
    /\ posts' = 0
    /\ upstream' = NoAnswer
    /\ response' = NoResponse
    /\ content' = None
    /\ text' = None
    /\ json_str' = Unbound
    /\ json_data' = None
    /\ via' = "none"
    /\ UNCHANGED <<openrouter_client, now, rate_limit_store, admitted>>

\* module load: the client is built from the environment, the store is empty
Init ==
    /\ openrouter_client \in {"none", "google", "openrouter"}
    /\ now = 0
    /\ rate_limit_store = [u \in Users |-> <<>>]
    /\ admitted = [u \in Users |-> <<>>]
    /\ allowed = TRUE
    /\ request = NoRequest
    /\ posts = 0
    /\ upstream = NoAnswer
    /\ response = NoResponse
    /\ pc = "idle"
    /\ content = None
    /\ text = None
    /\ json_str = Unbound
    /\ json_data = None
    /\ via = "none"

\* the users whose analysis requests are followed to their response
Requesters == {"u1"}

Next ==
    \/ \E user_id \in Requesters : \E n \in {0, 1} : Arrive(user_id, n)
    \/ UpstreamRespond
    \/ Finish
    \/ Tick

Spec == Init /\ [][Next]_vars

(***************************************************************************)
(* The rate limiter alone, under any sequence of calls                     *)
(***************************************************************************)
RateCall(user_id) ==
    /\ HistoryOpen
    /\ CheckRateLimit(user_id)
    /\ request' = [user_id |-> user_id, transactions |-> 1]
    /\ UNCHANGED <<openrouter_client, posts, upstream, response, pc, content,
                   text, json_str, json_data, via>>

InitRate == Init /\ openrouter_client = "google"

NextRate ==
    \/ \E user_id \in Users : RateCall(user_id)
    \/ Tick

SpecRate == InitRate /\ [][NextRate]_vars

(***************************************************************************)
(* The recovery engine alone, on every dressed and truncated document      *)
(***************************************************************************)
InitExtract ==
    /\ openrouter_client = "google"
    /\ now = 0
    /\ rate_limit_store = [u \in Users |-> <<>>]
    /\ admitted = [u \in Users |-> <<>>]
    /\ allowed = TRUE
    /\ request = NoRequest
    /\ posts = 0
    /\ upstream = NoAnswer
    /\ response = NoResponse
    /\ pc = "direct"
    /\ content \in ExtractTexts
    /\ text = content
    /\ json_str = Unbound
    /\ json_data = None
    /\ via = "none"

SpecExtract == InitExtract /\ [][Extract]_vars

(***************************************************************************)
(* Claims about the recovery engine                                        *)
(***************************************************************************)

\* C1: for every reply text the engine returns (a value or None) and the
\* strip-and-reparse loop ends, by a successful parse or by giving up when
\* no colon remains.  The loop body is deterministic, so it ends only if an
\* iteration that neither parses nor gives up has changed the candidate: at
\* a candidate the iteration leaves as it is, the loop repeats forever and
\* the engine never returns.
C1_EngineReturns ==
    pc = "strip" =>
        \E c \in {StripLastPair(json_str)} :
            c # json_str \/ Loads(c).ok \/ Count(c, ":") = 0

\* b is a with exactly one , "key": value fragment removed, the one that ends
\* at the final closer of a
OnlyTrailingPairRemoved(a, b) ==
    \E k \in 1..Len(a) :
        /\ PairAt(a, k) = Len(a)
        /\ b = SubSeq(a, 1, k - 1) \o <<a[Len(a)]>>

\* C4: an iteration of the repair loop that changes the candidate removes
\* only the trailing key-value fragment before its final closer; every
\* other character of the candidate, complete pairs of closed nested
\* objects included, stays as it was.
C4_OnlyTrailingPairStripped ==
    [][(pc = "strip" /\ json_str' # json_str)
          => OnlyTrailingPairRemoved(json_str, json_str')]_vars

\* the valid JSON objects among the documents
ValidObjects == {d \in Docs : Loads(d).ok /\ Loads(d).v[1] = "obj"}

\* C8: a valid JSON object in a code fence (tagged or not, blanks around)
\* is recovered by the direct parse as the value json.loads gives for the
\* object alone, and so is the object alone.
C8_FenceRoundTrip ==
    \A J \in ValidObjects : \A w \in FenceWraps \cup {0} :
        (pc = "extracted" /\ content = Wrap(w, J))
            => (json_data = Loads(J).v /\ via = "direct")

\* the analysis reply in a json-tagged fence has been recovered
C8_Witness ==
    /\ pc = "extracted"
    /\ content = Wrap(1, ValidAnalysis)
    /\ via = "direct"
    /\ json_data = Loads(ValidAnalysis).v
    /\ json_data[2][K_emotion] = <<"str", Calm>>

\* what brace completion finds when the candidate is bound: the strip loop
\* gave it up, so it starts with {, holds no colon and holds a }
GivenUp(s) ==
    /\ s[1] = "{"
    /\ Count(s, ":") = 0
    /\ Count(s, "}") >= 1

\* the strategies that return a value
Recovering == {"direct", "fenced", "largest", "strip"}

\* C11: brace completion never returns a value.  With a candidate it is
\* entered from the strip loop only, once that gave up, so the candidate
\* starts with {, has no colon and has a }, and no number of closing braces
\* appended makes it parse; every value returned comes from the direct
\* parse, the fenced block, or the trailing-comma and strip repairs, also
\* for a reply that lacks nothing but its closing braces.
C11_BraceCompletionRecoversNothing ==
    /\ [](/\ via # "brace"
          /\ pc = "extracted" => (via \in Recovering \/ json_data = None)
          /\ (pc = "brace" /\ json_str # Unbound) =>
                /\ GivenUp(json_str)
                /\ ~Loads(CompleteBraces(json_str)).ok)
    /\ [][(pc' = "brace" /\ pc # "brace" /\ json_str' # Unbound)
            => pc = "strip"]_vars

\* the strip loop gave up on {{} , the missing brace was appended, and the
\* completed candidate did not parse
C11_Witness ==
    /\ pc = "extracted"
    /\ content = OpenBraces
    /\ json_str = OpenBraces \o <<"}">>
    /\ via = "none"
    /\ json_data = None


(***************************************************************************)
(* Claims about the responder, the adapters and the handler                *)
(***************************************************************************)

\* the enumerations and the range the analysis schema is documented with
Stressed == <<"s", "t", "r", "e", "s", "s", "e", "d">>
Anxious == <<"a", "n", "x", "i", "o", "u", "s">>
Excited == <<"e", "x", "c", "i", "t", "e", "d">>
Neutral == <<"n", "e", "u", "t", "r", "a", "l">>
Spender == <<"s", "p", "e", "n", "d", "e", "r">>
Balanced == <<"b", "a", "l", "a", "n", "c", "e", "d">>
Investor == <<"i", "n", "v", "e", "s", "t", "o", "r">>

Emotions == {Calm, Stressed, Anxious, Excited, Neutral}

Profiles == {Spender, Saver, Balanced, Investor}

AllZero(ds) == \A i \in DOMAIN ds : ds[i] = "0"

\* a number written as a plain decimal lies in [0.0, 1.0]
InUnitInterval(v) ==
    \/ v[1] = "int" /\ (v[3] = <<"0">> \/ (~v[2] /\ v[3] = <<"1">>))
    \/ /\ v[1] = "float"
       /\ v[5] = <<>>
       /\ \/ AllZero(v[3]) /\ AllZero(v[4])
          \/ ~v[2] /\ AllZero(v[3])
          \/ ~v[2] /\ v[3] = <<"1">> /\ AllZero(v[4])

IsErrorResult(body) == "error" \in DOMAIN body

\* the body is the ErrorResult of class error that carries the reply text
IsErrorWithReply(body, error) ==
    /\ IsErrorResult(body)
    /\ body.error = error
    /\ body.raw_response = content

\* the engine was called on a reply text and the handler has answered
Answered == pc = "done" /\ upstream.kind = "ok" /\ content # None

\* every field of v has its type, yet a value is outside its enumeration
\* or its range
ViolatesByValueOnly(v) ==
    /\ Validates(v)
    /\ \/ v[2][K_emotion][2] \notin Emotions
       \/ v[2][K_financial_profile][2] \notin Profiles
       \/ ~InUnitInterval(v[2][K_confidence])

\* C2: a recovered object whose only schema violation is a value outside
\* its enumeration or range (confidence outside [0, 1], unknown emotion or
\* financial_profile) is answered with the ErrorResult "Validation failed"
\* carrying the reply text, never with a success body.
C2_ValueViolationRejected ==
    (Answered /\ ViolatesByValueOnly(json_data))
        => IsErrorWithReply(response.body, <<"Validation failed">>)

\* C3: the responder decides by three cases on what the engine returned:
\* no value, then the ErrorResult "Failed to extract JSON from model
\* response"; a value that fails validation ({} and non-objects included),
\* then the ErrorResult "Validation failed"; a valid value, then the
\* analysis itself.  Both errors carry the unmodified reply text.
C3_ThreeCases ==
    Answered =>
        IF json_data = None
        THEN IsErrorWithReply(response.body,
                 <<"Failed to extract JSON from model response">>)
        ELSE IF ~Validates(json_data)
        THEN IsErrorWithReply(response.body, <<"Validation failed">>)
        ELSE ~IsErrorResult(response.body)
                /\ response.body = ModelDict(json_data)

\* C5: at most one POST goes out for a request whatever its outcome, and
\* once the call has ended the request only ends: no further call follows.
C5_SinglePost ==
    /\ [](posts <= 1)
    /\ [][pc = "done" => (pc' = "idle" \/ (pc' = "done" /\ posts' = posts))]_vars

\* a call that failed in transport has ended the request after one POST
C5_Witness ==
    /\ pc = "done"
    /\ posts = 1
    /\ upstream.kind = "transport"
    /\ response = [status |-> 200, body |-> UnexpectedError]

\* the body is an analysis valid by the documented schema
IsAnalysisResult(body) ==
    /\ DOMAIN body = {"emotion", "financial_profile", "confidence",
                      "top_insights", "recommendations", "savings_plan"}
    /\ body.emotion[2] \in Emotions
    /\ body.financial_profile[2] \in Profiles
    /\ InUnitInterval(body.confidence)

\* C6: a request that passed the three admission checks is answered with
\* status 200 and a body that is a schema-valid analysis or an ErrorResult;
\* the handler answers with no status other than 200, 500, 429 and 400.
C6_AdmittedEndsWith200 ==
    pc = "done" =>
        /\ response.status \in {200, 500, 429, 400}
        /\ posts = 1 =>
              /\ response.status = 200
              /\ IsErrorResult(response.body)
                    \/ IsAnalysisResult(response.body)

\* the reply text is present at candidates[0].content.parts[0].text
\* (Google) or choices[0].message.content (OpenRouter)
TextPathPresent(provider, response_data) ==
    IF provider = "google"
    THEN /\ "candidates" \in DOMAIN response_data
         /\ Len(response_data.candidates) > 0
         /\ "content" \in DOMAIN response_data.candidates[1]
         /\ "parts" \in DOMAIN response_data.candidates[1].content
         /\ Len(response_data.candidates[1].content.parts) > 0
         /\ "text" \in DOMAIN response_data.candidates[1].content.parts[1]
    ELSE /\ "choices" \in DOMAIN response_data
         /\ Len(response_data.choices) > 0
         /\ "message" \in DOMAIN response_data.choices[1]
         /\ "content" \in DOMAIN response_data.choices[1].message

\* C7: a 2xx envelope without the reply text at the expected path, the list
\* absent or empty or a field under its first element absent, is answered
\* with the ErrorResult "Unexpected API response structure".
C7_MissingTextIsStructural ==
    (pc = "done" /\ upstream.kind = "ok"
        /\ ~TextPathPresent(openrouter_client, upstream.envelope))
        => /\ IsErrorResult(response.body)
           /\ response.body.error = <<"Unexpected API response structure">>

(***************************************************************************)
(* Claims about the rate limiter and the admission checks                  *)
(***************************************************************************)

\* s is the end of h
IsSuffix(s, h) ==
    Len(s) <= Len(h) /\ s = SubSeq(h, Len(h) - Len(s) + 1, Len(h))

\* the calls of history h admitted less than a window before t
RecentAdmitted(h, t) ==
    Cardinality({i \in DOMAIN h : t - h[i] < RATE_LIMIT_WINDOW})

\* the list of every user holds admitted times only, at most 10, and no
\* window of 60 seconds holds more than 10 admitted calls of a user
WindowRespected ==
    \A u \in Users :
        /\ Len(rate_limit_store[u]) <= RATE_LIMIT_MAX_REQUESTS
        /\ IsSuffix(rate_limit_store[u], admitted[u])
        /\ \A i \in DOMAIN admitted[u] :
              RecentAdmitted(SubSeq(admitted[u], 1, i), admitted[u][i])
                  <= RATE_LIMIT_MAX_REQUESTS

\* a call of user u: rejected exactly when 10 admitted calls of u lie less
\* than 60 seconds back, recording nothing then, and leaving the lists of
\* the other users as they were
CallJudged(u) ==
    /\ allowed' = (RecentAdmitted(admitted[u], now) < RATE_LIMIT_MAX_REQUESTS)
    /\ ~allowed' =>
          rate_limit_store' = rate_limit_store /\ admitted' = admitted
    /\ allowed' =>
          /\ admitted'[u] = Append(admitted[u], now)
          /\ rate_limit_store'[u] = Append(Pruned(rate_limit_store[u], now), now)
    /\ \A v \in Users \ {u} :
          rate_limit_store'[v] = rate_limit_store[v]

\* C9: the sliding window of 10 calls in 60 seconds per user holds after
\* any sequence of calls with non-decreasing clock readings, and every call
\* is judged by the admitted calls of its own user alone.
C9_SlidingWindow ==
    /\ []WindowRespected
    /\ [][now' = now => CallJudged(request'.user_id)]_vars

\* after an admitted call has left the window, a call of a user is rejected
\* with 10 calls recorded, while the other user has a call recorded too
C9_Witness ==
    /\ ~allowed
    /\ now = MaxTime
    /\ Len(rate_limit_store[request.user_id]) = RATE_LIMIT_MAX_REQUESTS
    /\ Len(admitted[request.user_id]) > RATE_LIMIT_MAX_REQUESTS
    /\ \E v \in Users \ {request.user_id} : Len(rate_limit_store[v]) > 0

\* the step that takes a request from its arrival to a rejection or to the
\* awaited upstream call
Admission(u, n) ==
    \E kept \in {Pruned(rate_limit_store[u], now)} :
        /\ openrouter_client = "none" =>
              /\ pc' = "done" /\ response'.status = 500
              /\ rate_limit_store' = rate_limit_store
        /\ (openrouter_client # "none"
                /\ Len(kept) >= RATE_LIMIT_MAX_REQUESTS) =>
              /\ pc' = "done" /\ response'.status = 429
              /\ rate_limit_store' = rate_limit_store
        /\ (openrouter_client # "none"
                /\ Len(kept) < RATE_LIMIT_MAX_REQUESTS /\ n = 0) =>
              /\ pc' = "done" /\ response'.status = 400
              /\ rate_limit_store'[u] = Append(kept, now)
        /\ (openrouter_client # "none"
                /\ Len(kept) < RATE_LIMIT_MAX_REQUESTS /\ n > 0) =>
              /\ pc' = "awaiting" /\ posts' = 1
              /\ rate_limit_store'[u] = Append(kept, now)
        /\ pc' = "done" => posts' = 0

\* C10: the checks run in the order provider (500), rate limit (429),
\* transactions (400), and the upstream is called only when all pass: a
\* request rejected with 400 has been recorded by the rate limiter, one
\* rejected with 500 or 429 leaves the store as it was, and no rejected
\* request is followed by a POST.
C10_AdmissionOrder ==
    [][(pc = "idle" /\ pc' # "idle")
          => Admission(request'.user_id, request'.transactions)]_vars

\* a request without transactions was rejected with 400 and took the last
\* of the 10 slots of its user
C10_Witness ==
    /\ pc = "done"
    /\ response.status = 400
    /\ request.transactions = 0
    /\ posts = 0
    /\ Len(rate_limit_store[request.user_id]) = RATE_LIMIT_MAX_REQUESTS
====
